---- MODULE Spec2Model ----
(***************************************************************************)
(* vesper: the endless persona loop of main.py (run_one and its closures,  *)
(* the LLM worker) and the chunk player of ui_renderer.py                  *)
(* (ConversationWindow.play_chunks and its timer / fade callbacks).        *)
(*                                                                         *)
(* Strings are sequences of one-character strings, so that strip, split    *)
(* and join are computed, not assumed.  Every Python function is an        *)
(* operator from a state record to a state record (named as in the         *)
(* source); every Qt event (a single-shot timer firing, the worker call    *)
(* returning, the dwell timer, the fade animation finishing) is an action  *)
(* that applies the handler the code connected to it.                      *)
(***************************************************************************)
EXTENDS Naturals, Sequences, FiniteSets

\* ------------------------------------------------------------------ bounds
\* run_one invocations (persona steps) explored
MaxSteps == 3
\* personas the configuration may list (0 .. MaxPersonas)
MaxPersonas == 2
\* num_characters the configuration may ask for (1 .. MaxChars)
MaxChars == 2
\* invocations of one step's proceed_next explored by SpecAdvance
MaxCalls == 3

\* the longest text given to chunk_text_by_sentences on its own, and the
\* largest max_words
MaxTextLen == 8
MaxWordsIn == 2

\* the most play_chunks sessions started on the window on its own
MaxSessions == 3

\* ------------------------------------------------------------- characters
Whitespace == {" ", "\n", "\t", "\r"}
SentenceEnd == {".", "!", "?"}
\* the argument of the second strip() of on_topic_finished; the four
\* typographic quotes are written by name
TopicStripChars ==
    {"\"", "'", "ldquo", "rdquo", "lsquo", "rsquo", ".", ",", ";", ":", "-", " "}

\* ---------------------------------------------------------- str methods
RECURSIVE LStrip(_, _)
LStrip(t, cs) ==
    IF t # <<>> /\ Head(t) \in cs THEN LStrip(Tail(t), cs) ELSE t

RECURSIVE RStrip(_, _)
RStrip(t, cs) ==
    IF t # <<>> /\ t[Len(t)] \in cs THEN RStrip(SubSeq(t, 1, Len(t) - 1), cs) ELSE t

\* str.strip(chars)
StripChars(t, cs) == RStrip(LStrip(t, cs), cs)

\* str.strip()
strip(t) == StripChars(t, Whitespace)

RECURSIVE WordsFrom(_, _, _)
WordsFrom(t, i, cur) ==
    IF i > Len(t) THEN (IF cur = <<>> THEN <<>> ELSE <<cur>>)
    ELSE IF t[i] \in Whitespace
         THEN (IF cur = <<>> THEN <<>> ELSE <<cur>>) \o WordsFrom(t, i + 1, <<>>)
         ELSE WordsFrom(t, i + 1, Append(cur, t[i]))

\* str.split(): the maximal runs of non-whitespace
split(t) == WordsFrom(t, 1, <<>>)

RECURSIVE join(_, _)
\* sep.join(parts)
join(parts, sep) ==
    IF parts = <<>> THEN <<>>
    ELSE IF Len(parts) = 1 THEN parts[1]
    ELSE parts[1] \o sep \o join(Tail(parts), sep)

RECURSIVE LinesFrom(_, _, _)
LinesFrom(t, i, cur) ==
    IF i > Len(t) THEN (IF cur = <<>> THEN <<>> ELSE <<cur>>)
    ELSE IF t[i] \in {"\n", "\r"}
         THEN <<cur>> \o LinesFrom(t, i + 1, <<>>)
         ELSE LinesFrom(t, i + 1, Append(cur, t[i]))

\* str.splitlines(): "" has no line, a final line break opens no new line
splitlines(t) == LinesFrom(t, 1, <<>>)

RECURSIVE SkipSpaces(_, _)
SkipSpaces(t, i) ==
    IF i <= Len(t) /\ t[i] \in Whitespace THEN SkipSpaces(t, i + 1) ELSE i

RECURSIVE SplitFrom(_, _, _)
SplitFrom(t, i, cur) ==
    IF i > Len(t) THEN <<cur>>
    ELSE IF t[i] \in Whitespace /\ i > 1 /\ t[i - 1] \in SentenceEnd
         THEN <<cur>> \o SplitFrom(t, SkipSpaces(t, i), <<>>)
         ELSE SplitFrom(t, i + 1, Append(cur, t[i]))

\* re.split(r'(?<=[.!?])\s+', t): cut at every whitespace run that follows
\* a sentence end; the run itself is dropped
re_split_sentences(t) == SplitFrom(t, 1, <<>>)

\* ------------------------------------------------ chunk_text_by_sentences
\* flush(): close the chunk being built
flush(acc) ==
    IF acc.current # <<>>
    THEN [chunks |-> Append(acc.chunks, strip(join(acc.current, <<" ">>))),
          current |-> <<>>, count |-> 0]
    ELSE acc

RECURSIVE HardSplit(_, _, _)
\* for i in range(0, len(words), max_words): the windows from word i on
HardSplit(words, i, max_words) ==
    IF i > Len(words) THEN <<>>
    ELSE LET hi == IF i + max_words - 1 < Len(words) THEN i + max_words - 1 ELSE Len(words)
             part == strip(join(SubSeq(words, i, hi), <<" ">>))
         IN (IF part # <<>> THEN <<part>> ELSE <<>>)
            \o HardSplit(words, i + max_words, max_words)

\* ChunkSentence that adds a sentence to the chunk being built whenever
\* that chunk is not yet full
ChunkSentence_overfills(acc, s, max_words) ==
    IF s = <<>> THEN acc
    ELSE LET words == split(s) IN
         IF words = <<>> THEN acc
         ELSE IF Len(words) > max_words
              THEN LET f == flush(acc)
                   IN [f EXCEPT !.chunks = f.chunks \o HardSplit(words, 1, max_words)]
              ELSE IF acc.count < max_words
                   THEN [acc EXCEPT !.current = Append(acc.current, s),
                                    !.count = acc.count + Len(words)]
                   ELSE LET f == flush(acc)
                        IN [f EXCEPT !.current = <<s>>, !.count = Len(words)]

\* one pass of "for s in sentences"
ChunkSentence(acc, s, max_words) ==
    IF s = <<>> THEN acc
    ELSE LET words == split(s) IN
         IF words = <<>> THEN acc
         ELSE IF Len(words) > max_words
              THEN LET f == flush(acc)
                   IN [f EXCEPT !.chunks = f.chunks \o HardSplit(words, 1, max_words)]
              ELSE IF acc.count + Len(words) <= max_words
                   THEN [acc EXCEPT !.current = Append(acc.current, s),
                                    !.count = acc.count + Len(words)]
                   ELSE LET f == flush(acc)
                        IN [f EXCEPT !.current = <<s>>, !.count = Len(words)]

RECURSIVE ChunkLoop(_, _, _, _)
ChunkLoop(acc, sentences, i, max_words) ==
    IF i > Len(sentences) THEN acc
    ELSE ChunkLoop(ChunkSentence(acc, sentences[i], max_words), sentences, i + 1, max_words)

\* chunk_text_by_sentences without the flush() after its loop
chunk_text_by_sentences_no_final_flush(t, max_words) ==
    LET sentences == re_split_sentences(strip(t))
        acc == ChunkLoop([chunks |-> <<>>, current |-> <<>>, count |-> 0],
                         sentences, 1, max_words)
    IN SelectSeq(acc.chunks, LAMBDA c : c # <<>>)

\* chunk_text_by_sentences cutting the text's words into windows of
\* max_words, whatever the sentences
chunk_text_by_words(t, max_words) ==
    HardSplit(split(strip(t)), 1, max_words)

chunk_text_by_sentences(t, max_words) ==
    LET sentences == re_split_sentences(strip(t))
        acc == ChunkLoop([chunks |-> <<>>, current |-> <<>>, count |-> 0],
                         sentences, 1, max_words)
    IN SelectSeq(flush(acc).chunks, LAMBDA c : c # <<>>)

\* ------------------------------------------------------------ program data
\* the persona pick_persona_sequence returns when none is configured
DefaultPersona == 0
\* its max_words_per_chunk
DefaultMaxWords == 85
\* configured persona p allows p words per chunk
PersonaMaxWords(p) == IF p = DefaultPersona THEN DefaultMaxWords ELSE p

\* what the inference engine may return for a prompt, before
\* LLMInterface.generate strips it: nothing, blank, punctuation only, one
\* word, two sentences, three sentences
EngineOutputs ==
    { <<>>,
      <<" ">>,
      <<".">>,
      <<"a">>,
      <<"a", ".", " ", "a", ".">>,
      <<"a", ".", " ", "a", ".", "\n", "a", ".">> }

\* str(e) of what the inference call may raise
EngineErrors == { <<"o", "o", "m">>, <<"d", "e", "c">> }

\* the literal topic used when the cleaned topic is empty
\* str(e) of what LLMInterface.__init__ may raise: llama_cpp missing, the
\* model file missing
LoadErrors == { <<"n", "o", "l", "i", "b">>, <<"n", "o", "f", "i", "l", "e">> }

LIFE == <<"l", "i", "f", "e">>

\* an f-string: its fixed part and the value put into it
Fmt(f, arg) == [fmt |-> f, arg |-> arg]
PlainText(t) == Fmt("%s", t)
TopicText(topic) == Fmt("Topic: %s", topic)
ErrorText(msg) ==
    Fmt("[LLM error] %s\n\nCheck model_path in config.yaml and your llama-cpp-python install.", msg)
EmptyText == Fmt("[Empty response]", <<>>)

\* a pending QTimer.singleShot(ms, callback); step, persona and topic are
\* what the callback's closure holds
Timer(kind, k, p, topic, ms) ==
    [kind |-> kind, step |-> k, persona |-> p, topic |-> topic, ms |-> ms]

\* a slot connected to worker.finished or worker.error
Handler(h, k, p) == [h |-> h, step |-> k, persona |-> p]

\* worker.generate(prompt, max_tokens); the prompt is built from the stage,
\* the persona and the topic
\* thread is the thread that executes the call
Request(stage, k, p, topic, max_tokens, thread) ==
    [stage |-> stage, step |-> k, persona |-> p, topic |-> topic,
     max_tokens |-> max_tokens, thread |-> thread]

Steps == 1..MaxSteps
HandlerNames == {"on_topic_finished", "on_persona_finished", "on_error"}

VARIABLES
    \* the process: "running", or "aborted" by an exception that left a slot
    app,
    \* cfg: how many personalities it lists, and num_characters
    personalities, num_chars,
    \* main(): state["personas_seq"], index["i"]
    personas_seq, index,
    \* run_one calls so far (the latest call's closures are step stepNo), and
    \* the steps whose guard["done"] is True
    stepNo, guard,
    \* the slots connected to worker.finished and worker.error, in order
    finished_conn, error_conn,
    \* pending single-shot timers, and the calls of worker.generate that
    \* have not returned
    timers, inflight,
    \* ConversationWindow: the text box, the status line, the chunk player
    text, status, chunks, chunk_idx, fading_out, opacity,
    delay_active, fade_running, fade_end,
    \* observation only -------------------------------------------------
    \* per step: calls of proceed_next, increments of index, run_one
    \* timers scheduled
    calls, incs, scheds,
    \* emissions of a chunks_finished signal (ui_renderer.py has no
    \* statement that emits one)
    emits,
    \* play_chunks sessions started, the step that started the latest one,
    \* and what the player did in it
    session, sessionStep, plog,
    \* invocations of the current step's handlers, and of handlers of
    \* earlier steps
    fired, stale,
    \* the event handled last
    lastEvent,
    \* steps whose topic request failed, whose monologue request was
    \* submitted, for which play_chunks was called
    topicFailed, monoSubmitted, played,
    \* calls of worker.generate, and emissions of finished or error
    submitted, events,
    \* the play_chunks session in which the running fade was started
    fade_session,
    \* whether LLMInterface(...) was constructed ("ok") or raised ("failed"),
    \* and whether the LLMWorker exists
    llm, worker,
    \* the user has closed the window and the event loop has not yet
    \* handled it
    closing,
    \* chunk_text_by_sentences on its own: its arguments, whether it has
    \* been called, and what it returned
    text_in, max_words_in, chunked, chunks_out

vars ==
    << app, personalities, num_chars, personas_seq, index, stepNo, guard,
       finished_conn, error_conn, timers, inflight, text, status, chunks,
       chunk_idx, fading_out, opacity, delay_active, fade_running, fade_end,
       calls, incs, scheds, emits, session, sessionStep, plog, fired, stale,
       lastEvent, topicFailed, monoSubmitted, played, submitted, events,
       fade_session, llm, worker, closing, text_in, max_words_in, chunked,
       chunks_out >>

\* the state as one value, for the operators below; exc: an exception has
\* left the slot being run
Cur ==
    [ personas_seq |-> personas_seq, index |-> index, stepNo |-> stepNo,
      guard |-> guard, finished_conn |-> finished_conn,
      error_conn |-> error_conn, timers |-> timers, inflight |-> inflight,
      text |-> text, status |-> status, chunks |-> chunks,
      chunk_idx |-> chunk_idx, fading_out |-> fading_out,
      opacity |-> opacity, delay_active |-> delay_active,
      fade_running |-> fade_running, fade_end |-> fade_end,
      calls |-> calls, incs |-> incs, scheds |-> scheds, emits |-> emits,
      session |-> session, sessionStep |-> sessionStep, plog |-> plog,
      fired |-> fired, stale |-> stale, lastEvent |-> lastEvent,
      topicFailed |-> topicFailed, monoSubmitted |-> monoSubmitted,
      played |-> played, submitted |-> submitted, events |-> events,
      fade_session |-> fade_session, exc |-> FALSE ]

\* An exception that leaves a slot called by Qt: PyQt5 from 5.5 on aborts
\* the process (no sys.excepthook is installed), earlier ones print it and
\* return to the event loop.
Commit(t) ==
    /\ app' \in (IF t.exc THEN {"running", "aborted"} ELSE {app})
    /\ UNCHANGED << personalities, num_chars, llm, worker, closing >>
    /\ UNCHANGED << text_in, max_words_in, chunked, chunks_out >>
    /\ personas_seq' = t.personas_seq
    /\ index' = t.index
    /\ stepNo' = t.stepNo
    /\ guard' = t.guard
    /\ finished_conn' = t.finished_conn
    /\ error_conn' = t.error_conn
    /\ timers' = t.timers
    /\ inflight' = t.inflight
    /\ text' = t.text
    /\ status' = t.status
    /\ chunks' = t.chunks
    /\ chunk_idx' = t.chunk_idx
    /\ fading_out' = t.fading_out
    /\ opacity' = t.opacity
    /\ delay_active' = t.delay_active
    /\ fade_running' = t.fade_running
    /\ fade_end' = t.fade_end
    /\ calls' = t.calls
    /\ incs' = t.incs
    /\ scheds' = t.scheds
    /\ emits' = t.emits
    /\ session' = t.session
    /\ sessionStep' = t.sessionStep
    /\ plog' = t.plog
    /\ fired' = t.fired
    /\ stale' = t.stale
    /\ lastEvent' = t.lastEvent
    /\ topicFailed' = t.topicFailed
    /\ monoSubmitted' = t.monoSubmitted
    /\ played' = t.played
    /\ submitted' = t.submitted
    /\ events' = t.events
    /\ fade_session' = t.fade_session

Raise(s) == [s EXCEPT !.exc = TRUE]
Event(s, ev, k, stage, arg) ==
    [s EXCEPT !.lastEvent = [ev |-> ev, step |-> k, stage |-> stage, arg |-> arg]]
RemoveAt(q, i) == SubSeq(q, 1, i - 1) \o SubSeq(q, i + 1, Len(q))

\* ------------------------------------------------------ ConversationWindow
show_status(s, message) == [s EXCEPT !.status = message]

display_text(s, t) == [s EXCEPT !.text = t]

\* an empty list returns at once; otherwise chunk 0 is shown at full
\* opacity and the dwell timer is started
play_chunks(s, cs) ==
    IF cs = <<>> THEN s
    ELSE [s EXCEPT !.chunks = cs,
                   !.chunk_idx = 0,
                   !.opacity = 1,
                   !.text = PlainText(cs[1]),
                   !.delay_active = TRUE,
                   !.session = @ + 1,
                   !.plog = << <<"show", 0>> >>]

\* _on_delay_elapsed: the fade-out is started from the current opacity
on_delay_elapsed(s) ==
    [s EXCEPT !.fading_out = TRUE,
              !.fade_running = TRUE,
              !.fade_end = 0,
              !.fade_session = s.session,
              !.plog = Append(@, <<"dwell", s.chunk_idx>>)]

\* on_fade_finished that restarts the dwell timer before it looks whether
\* the last chunk has gone
on_fade_finished_redwells(s) ==
    IF s.fading_out
    THEN LET s1 == [s EXCEPT !.chunk_idx = @ + 1,
                             !.delay_active = TRUE,
                             !.plog = Append(@, <<"fade_out", s.chunk_idx>>)]
         IN IF s1.chunk_idx >= Len(s1.chunks) THEN s1
            ELSE [s1 EXCEPT !.text = PlainText(s1.chunks[s1.chunk_idx + 1]),
                            !.fading_out = FALSE,
                            !.opacity = 0,
                            !.fade_running = TRUE,
                            !.fade_end = 1,
                            !.fade_session = s.session,
                            !.plog = Append(@, <<"show", s1.chunk_idx>>)]
    ELSE LET s1 == [s EXCEPT !.plog = Append(@, <<"fade_in", s.chunk_idx>>)]
         IN IF s1.chunk_idx < Len(s1.chunks) - 1
            THEN [s1 EXCEPT !.delay_active = TRUE]
            ELSE s1

\* _on_fade_finished: after a fade-out the index moves on and, unless it
\* has reached len(chunks), the next chunk is faded in; after a fade-in the
\* dwell timer is started only if idx < len(chunks) - 1
on_fade_finished(s) ==
    IF s.fading_out
    THEN LET s1 == [s EXCEPT !.chunk_idx = @ + 1,
                             !.plog = Append(@, <<"fade_out", s.chunk_idx>>)]
         IN IF s1.chunk_idx >= Len(s1.chunks) THEN s1
            ELSE [s1 EXCEPT !.text = PlainText(s1.chunks[s1.chunk_idx + 1]),
                            !.fading_out = FALSE,
                            !.opacity = 0,
                            !.fade_running = TRUE,
                            !.fade_end = 1,
                            !.fade_session = s.session,
                            !.plog = Append(@, <<"show", s1.chunk_idx>>)]
    ELSE LET s1 == [s EXCEPT !.plog = Append(@, <<"fade_in", s.chunk_idx>>)]
         IN IF s1.chunk_idx < Len(s1.chunks) - 1
            THEN [s1 EXCEPT !.delay_active = TRUE]
            ELSE s1

\* ----------------------------------------------------------------- main()
\* pick_persona_sequence drawing with replacement whatever the list's length
pick_persona_sequence_with_replacement(n, count) ==
    IF n = 0 THEN { <<DefaultPersona>> }
    ELSE [1..count -> 1..n]

pick_persona_sequence(n, count) ==
    IF n = 0 THEN { <<DefaultPersona>> }
    ELSE IF n >= count
         THEN { q \in [1..count -> 1..n] :
                  \A i, j \in 1..count : i # j => q[i] # q[j] }
         ELSE [1..count -> 1..n]

\* proceed_next without its guard
proceed_next_unguarded(s, k) ==
    [s EXCEPT !.calls[k] = @ + 1,
              !.guard = @ \cup {k},
              !.index = @ + 1,
              !.incs[k] = @ + 1,
              !.scheds[k] = @ + 1,
              !.timers = Append(@, Timer("run_one", k, DefaultPersona, <<>>, 0))]

proceed_next(s, k) ==
    LET c == [s EXCEPT !.calls[k] = @ + 1]
    IN IF k \in c.guard THEN c
       ELSE [c EXCEPT !.guard = @ \cup {k},
                      !.index = @ + 1,
                      !.incs[k] = @ + 1,
                      !.scheds[k] = @ + 1,
                      !.timers = Append(@, Timer("run_one", k, DefaultPersona, <<>>, 0))]

\* on_error that reports and does not advance
on_error_display_only(s, k, msg) ==
    show_status(display_text(s, ErrorText(msg)), "Error - moving to next character")

on_error(s, k, msg) ==
    proceed_next(
        show_status(display_text(s, ErrorText(msg)),
                    "Error - moving to next character"),
        k)

\* raw.splitlines()[0] raises IndexError when raw is empty: nothing is
\* displayed and start_persona is not scheduled
on_topic_finished(s, k, p, t) ==
    LET raw == strip(t)
        lines == splitlines(raw)
    IN IF lines = <<>> THEN Raise(s)
       ELSE LET cleaned == StripChars(strip(lines[1]), TopicStripChars)
                topic == IF cleaned = <<>> THEN LIFE ELSE cleaned
                s1 == show_status(display_text(s, TopicText(topic)), "topic chosen")
            IN [s1 EXCEPT !.timers = Append(@, Timer("start_persona", k, p, topic, 1200))]

\* start_persona that connects its slots without disconnecting the old ones
start_persona_keeps_handlers(s, k, p, topic) ==
    [s EXCEPT !.finished_conn = Append(@, Handler("on_persona_finished", k, p)),
              !.error_conn = Append(@, Handler("on_error", k, p)),
              !.timers = Append(@, Timer("generate_persona", k, p, topic, 0))]

start_persona(s, k, p, topic) ==
    [s EXCEPT !.finished_conn = << Handler("on_persona_finished", k, p) >>,
              !.error_conn = << Handler("on_error", k, p) >>,
              !.timers = Append(@, Timer("generate_persona", k, p, topic, 0))]

\* on_persona_finished that advances as soon as playback has been started
on_persona_finished_advances(s, k, p, gen_text) ==
    LET max_words == PersonaMaxWords(p)
        cs == chunk_text_by_sentences(gen_text, max_words)
    IN IF cs = <<>>
       THEN proceed_next(
                show_status(display_text(s, EmptyText), "No content returned - moving on"),
                k)
       ELSE LET s1 == [play_chunks(s, cs) EXCEPT !.sessionStep = k,
                                                 !.played = @ \cup {k}]
            IN proceed_next(show_status(s1, "showing chunks"), k)

\* on_persona_finished without its test for an empty chunk list
on_persona_finished_plays_empty(s, k, p, gen_text) ==
    LET max_words == PersonaMaxWords(p)
        cs == chunk_text_by_sentences(gen_text, max_words)
        s1 == [play_chunks(s, cs) EXCEPT !.sessionStep = k,
                                         !.played = @ \cup {k}]
        s2 == show_status(s1, "showing chunks")
    IN Raise(s2)

\* ConversationWindow has no attribute chunks_finished: the disconnect()
\* of line 248 raises AttributeError inside its try, the connect() of line
\* 251 raises it out of the slot, and lines 254-255 (the fallback timer)
\* are not reached
on_persona_finished(s, k, p, gen_text) ==
    LET max_words == PersonaMaxWords(p)
        cs == chunk_text_by_sentences(gen_text, max_words)
    IN IF cs = <<>>
       THEN proceed_next(
                show_status(display_text(s, EmptyText), "No content returned - moving on"),
                k)
       ELSE LET s1 == [play_chunks(s, cs) EXCEPT !.sessionStep = k,
                                                 !.played = @ \cup {k}]
                s2 == show_status(s1, "showing chunks")
            IN Raise(s2)

\* run_one that draws a fresh sequence on every call
run_one_always_redraws(s, fresh) ==
    LET s1 == [show_status(s, "Pass complete - picking new characters")
                  EXCEPT !.personas_seq = fresh, !.index = 0]
        i == s1.index
        persona == s1.personas_seq[i + 1]
        k == s.stepNo + 1
        s2 == show_status(display_text(s1, PlainText(<<>>)), "choosing topic")
    IN [s2 EXCEPT !.stepNo = k,
                  !.fired = [h \in HandlerNames |-> 0],
                  !.finished_conn = << Handler("on_topic_finished", k, persona) >>,
                  !.error_conn = << Handler("on_error", k, persona) >>,
                  !.timers = Append(@, Timer("generate_topic", k, persona, <<>>, 0))]

run_one(s, fresh) ==
    LET s1 == IF s.index >= Len(s.personas_seq)
              THEN [show_status(s, "Pass complete - picking new characters")
                        EXCEPT !.personas_seq = fresh, !.index = 0]
              ELSE s
        i == s1.index
        persona == s1.personas_seq[i + 1]
        k == s.stepNo + 1
        s2 == show_status(display_text(s1, PlainText(<<>>)), "choosing topic")
    IN [s2 EXCEPT !.stepNo = k,
                  !.fired = [h \in HandlerNames |-> 0],
                  !.finished_conn = << Handler("on_topic_finished", k, persona) >>,
                  !.error_conn = << Handler("on_error", k, persona) >>,
                  !.timers = Append(@, Timer("generate_topic", k, persona, <<>>, 0))]

\* ------------------------------------------------------------- the worker
\* a connected slot is called with the signal's argument
Invoke(s, h, arg) ==
    LET s1 == IF h.step = s.stepNo
              THEN [s EXCEPT !.fired[h.h] = @ + 1]
              ELSE [s EXCEPT !.stale = @ + 1]
    IN CASE h.h = "on_topic_finished" -> on_topic_finished(s1, h.step, h.persona, arg)
         [] h.h = "on_persona_finished" -> on_persona_finished(s1, h.step, h.persona, arg)
         [] h.h = "on_error" -> on_error(s1, h.step, arg)

RECURSIVE Emit(_, _, _, _)
\* signal.emit(arg): the connected slots, in the order of their connection
Emit(s, conn, i, arg) ==
    IF i > Len(conn) THEN s
    ELSE Emit(Invoke(s, conn[i], arg), conn, i + 1, arg)

\* LLMWorker.generate emitting error after finished for the same call
generate_returns_and_raises(s, i, raw) ==
    LET r == s.inflight[i]
        t == strip(raw)
        s1 == Event([s EXCEPT !.inflight = RemoveAt(@, i), !.events = @ + 1],
                    "finished", r.step, r.stage, t)
        s2 == Emit(s1, s1.finished_conn, 1, t)
    IN Emit([s2 EXCEPT !.events = @ + 1], s1.error_conn, 1, t)

\* LLMWorker.generate, the inference call having returned raw
generate_returns(s, i, raw) ==
    LET r == s.inflight[i]
        t == strip(raw)
        s1 == Event([s EXCEPT !.inflight = RemoveAt(@, i), !.events = @ + 1],
                    "finished", r.step, r.stage, t)
    IN Emit(s1, s1.finished_conn, 1, t)

\* LLMWorker.generate swallowing the exception: nothing is emitted
generate_raises_silently(s, i, msg) ==
    LET r == s.inflight[i]
    IN Event([s EXCEPT !.inflight = RemoveAt(@, i)], "raised", r.step, r.stage, msg)

\* LLMWorker.generate, the inference call having raised e with str(e) = msg
generate_raises(s, i, msg) ==
    LET r == s.inflight[i]
        s1 == Event([s EXCEPT !.inflight = RemoveAt(@, i),
                              !.events = @ + 1,
                              !.topicFailed = IF r.stage = "topic" THEN @ \cup {r.step} ELSE @],
                    "error", r.step, r.stage, msg)
    IN Emit(s1, s1.error_conn, 1, msg)

\* a lambda that hands the call to the worker's thread, and does so twice
generate_called_queued_twice(s, t) ==
    LET stage == IF t.kind = "generate_topic" THEN "topic" ELSE "persona"
        n == IF t.kind = "generate_topic" THEN 50 ELSE 700
        r == Request(stage, t.step, t.persona, t.topic, n, "worker")
        s1 == [s EXCEPT !.inflight = Append(Append(@, r), r),
                        !.submitted = @ + 2,
                        !.monoSubmitted = IF stage = "persona" THEN @ \cup {t.step} ELSE @]
    IN Event(s1, "generate", t.step, stage, <<>>)

\* the lambda of QTimer.singleShot(0, lambda: worker.generate(prompt, n)):
\* the timer calls the lambda in the thread that made the timer, the
\* control thread, and the lambda calls worker.generate as a plain method
\* call, which runs in its caller's thread whatever thread the worker was
\* moved to
generate_called(s, t) ==
    LET stage == IF t.kind = "generate_topic" THEN "topic" ELSE "persona"
        n == IF t.kind = "generate_topic" THEN 50 ELSE 700
        s1 == [s EXCEPT !.inflight = Append(@, Request(stage, t.step, t.persona, t.topic, n, "control")),
                        !.submitted = @ + 1,
                        !.monoSubmitted = IF stage = "persona" THEN @ \cup {t.step} ELSE @]
    IN Event(s1, "generate", t.step, stage, <<>>)

\* ---------------------------------------------------------------- actions
\* The event loop of app.exec_() takes the next timer or window event only
\* when the slot it called last has returned: not while a call of
\* worker.generate runs in the control thread.
ControlThreadFree ==
    \A i \in 1..Len(inflight) : inflight[i].thread # "control"

\* main() after LLMInterface(...) has been constructed, up to the
\* QTimer.singleShot(0, run_one) of its last lines
InitMain ==
    /\ app = "running"
    /\ llm = "ok"
    /\ worker = TRUE
    /\ closing = FALSE
    /\ personalities \in 0..MaxPersonas
    /\ num_chars \in 1..MaxChars
    /\ personas_seq \in pick_persona_sequence(personalities, num_chars)
    /\ index = 0
    /\ stepNo = 0
    /\ guard = {}
    /\ finished_conn = <<>>
    /\ error_conn = <<>>
    /\ timers = << Timer("run_one", 0, DefaultPersona, <<>>, 0) >>
    /\ inflight = <<>>
    /\ text = PlainText(<<>>)
    /\ status = "Starting (ESC to quit)"
    /\ chunks = <<>>
    /\ chunk_idx = 0
    /\ fading_out = FALSE
    /\ opacity = 1
    /\ delay_active = FALSE
    /\ fade_running = FALSE
    /\ fade_end = 1
    /\ calls = [k \in Steps |-> 0]
    /\ incs = [k \in Steps |-> 0]
    /\ scheds = [k \in Steps |-> 0]
    /\ emits = 0
    /\ session = 0
    /\ sessionStep = 0
    /\ plog = <<>>
    /\ fired = [h \in HandlerNames |-> 0]
    /\ stale = 0
    /\ lastEvent = [ev |-> "start", step |-> 0, stage |-> "none", arg |-> <<>>]
    /\ topicFailed = {}
    /\ monoSubmitted = {}
    /\ played = {}
    /\ submitted = 0
    /\ events = 0
    /\ fade_session = 0

\* chunk_text_by_sentences has not been called on its own
ChunkerIdle ==
    /\ text_in = <<>>
    /\ max_words_in = 1
    /\ chunked = FALSE
    /\ chunks_out = <<>>

Init == InitMain /\ ChunkerIdle

\* main() going on to the worker and to run_one after it has shown that
\* LLMInterface(...) raised
main_llm_failed_starts_loop(msg) ==
    /\ app = "running"
    /\ llm = "failed"
    /\ worker = TRUE
    /\ closing = FALSE
    /\ personalities \in 0..MaxPersonas
    /\ num_chars \in 1..MaxChars
    /\ personas_seq \in pick_persona_sequence(personalities, num_chars)
    /\ index = 0
    /\ stepNo = 0
    /\ guard = {}
    /\ finished_conn = <<>>
    /\ error_conn = <<>>
    /\ timers = << Timer("run_one", 0, DefaultPersona, <<>>, 0) >>
    /\ inflight = <<>>
    /\ text = ErrorText(msg)
    /\ status = "Failed to initialize LLM."
    /\ chunks = <<>>
    /\ chunk_idx = 0
    /\ fading_out = FALSE
    /\ opacity = 1
    /\ delay_active = FALSE
    /\ fade_running = FALSE
    /\ fade_end = 1
    /\ calls = [k \in Steps |-> 0]
    /\ incs = [k \in Steps |-> 0]
    /\ scheds = [k \in Steps |-> 0]
    /\ emits = 0
    /\ session = 0
    /\ sessionStep = 0
    /\ plog = <<>>
    /\ fired = [h \in HandlerNames |-> 0]
    /\ stale = 0
    /\ lastEvent = [ev |-> "start", step |-> 0, stage |-> "none", arg |-> <<>>]
    /\ topicFailed = {}
    /\ monoSubmitted = {}
    /\ played = {}
    /\ submitted = 0
    /\ events = 0
    /\ fade_session = 0

\* main() when LLMInterface(...) raises e, with str(e) = msg: a window is
\* made to show the failure, and main() goes to app.exec_() from there
main_llm_failed(msg) ==
    /\ app = "running"
    /\ llm = "failed"
    /\ worker = FALSE
    /\ closing = FALSE
    /\ personalities \in 0..MaxPersonas
    /\ num_chars \in 1..MaxChars
    /\ personas_seq = <<>>
    /\ index = 0
    /\ stepNo = 0
    /\ guard = {}
    /\ finished_conn = <<>>
    /\ error_conn = <<>>
    /\ timers = <<>>
    /\ inflight = <<>>
    /\ text = ErrorText(msg)
    /\ status = "Failed to initialize LLM."
    /\ chunks = <<>>
    /\ chunk_idx = 0
    /\ fading_out = FALSE
    /\ opacity = 1
    /\ delay_active = FALSE
    /\ fade_running = FALSE
    /\ fade_end = 1
    /\ calls = [k \in Steps |-> 0]
    /\ incs = [k \in Steps |-> 0]
    /\ scheds = [k \in Steps |-> 0]
    /\ emits = 0
    /\ session = 0
    /\ sessionStep = 0
    /\ plog = <<>>
    /\ fired = [h \in HandlerNames |-> 0]
    /\ stale = 0
    /\ lastEvent = [ev |-> "start", step |-> 0, stage |-> "none", arg |-> <<>>]
    /\ topicFailed = {}
    /\ monoSubmitted = {}
    /\ played = {}
    /\ submitted = 0
    /\ events = 0
    /\ fade_session = 0

\* main(): LLMInterface(...) is constructed, or raises one of LoadErrors
InitStartup ==
    /\ InitMain \/ \E msg \in LoadErrors : main_llm_failed(msg)
    /\ ChunkerIdle


\* a run_one timer fires
RunOne ==
    /\ app = "running"
    /\ ControlThreadFree
    /\ stepNo < MaxSteps
    /\ \E i \in 1..Len(timers) :
         /\ timers[i].kind = "run_one"
         /\ \E fresh \in pick_persona_sequence(personalities, num_chars) :
              Commit(Event(run_one([Cur EXCEPT !.timers = RemoveAt(@, i)], fresh),
                           "run_one", stepNo + 1, "none", <<>>))

\* a generate timer fires: worker.generate is called
GenerateCall ==
    /\ app = "running"
    /\ ControlThreadFree
    /\ worker
    /\ \E i \in 1..Len(timers) :
         /\ timers[i].kind \in {"generate_topic", "generate_persona"}
         /\ Commit(generate_called([Cur EXCEPT !.timers = RemoveAt(@, i)], timers[i]))

\* the inference call returns: finished is emitted
GenerateReturn ==
    /\ app = "running"
    /\ \E i \in 1..Len(inflight), raw \in EngineOutputs :
         Commit(generate_returns(Cur, i, raw))

\* the inference call raises: error is emitted
GenerateRaise ==
    /\ app = "running"
    /\ \E i \in 1..Len(inflight), msg \in EngineErrors :
         Commit(generate_raises(Cur, i, msg))

\* the 1.2 s timer of on_topic_finished fires
StartPersona ==
    /\ app = "running"
    /\ ControlThreadFree
    /\ \E i \in 1..Len(timers) :
         /\ timers[i].kind = "start_persona"
         /\ LET t == timers[i]
            IN Commit(Event(start_persona([Cur EXCEPT !.timers = RemoveAt(@, i)],
                                          t.step, t.persona, t.topic),
                            "start_persona", t.step, "none", <<>>))

\* _delay_timer fires
DelayElapsed ==
    /\ app = "running"
    /\ ControlThreadFree
    /\ delay_active
    /\ Commit(Event(on_delay_elapsed([Cur EXCEPT !.delay_active = FALSE]),
                    "delay", sessionStep, "none", <<>>))

\* the fade animation reaches its end value and emits finished
FadeFinished ==
    /\ app = "running"
    /\ ControlThreadFree
    /\ fade_running
    /\ Commit(Event(on_fade_finished([Cur EXCEPT !.fade_running = FALSE,
                                                 !.opacity = fade_end]),
                    "fade", sessionStep, "none", <<>>))

Next ==
    \/ RunOne
    \/ GenerateCall
    \/ GenerateReturn
    \/ GenerateRaise
    \/ StartPersona
    \/ DelayElapsed
    \/ FadeFinished

Spec == Init /\ [][Next]_vars

SpecStartup == InitStartup /\ [][Next]_vars

\* --------------------------------------------------- the user's close
\* everything but app and closing
loopVars ==
    << personalities, num_chars, personas_seq, index, stepNo, guard,
       finished_conn, error_conn, timers, inflight, text, status, chunks,
       chunk_idx, fading_out, opacity, delay_active, fade_running, fade_end,
       calls, incs, scheds, emits, session, sessionStep, plog, fired, stale,
       lastEvent, topicFailed, monoSubmitted, played, submitted, events,
       fade_session, llm, worker, text_in, max_words_in, chunked,
       chunks_out >>

\* the user closes the window: the close event is posted to the control
\* thread
UserClose ==
    /\ app = "running"
    /\ ~closing
    /\ closing' = TRUE
    /\ UNCHANGED app
    /\ UNCHANGED loopVars

\* the event loop handles the close event: the last window is closed and
\* app.exec_() returns
ProcessClose ==
    /\ app = "running"
    /\ closing
    /\ ControlThreadFree
    /\ app' = "closed"
    /\ closing' = FALSE
    /\ UNCHANGED loopVars

NextThreads ==
    \/ Next
    \/ UserClose
    \/ ProcessClose

SpecThreads == Init /\ [][NextThreads]_vars

\* ------------------------------------------------ proceed_next on its own
\* Any trigger of step k (the playback's terminal event, the fallback
\* timer, on_error, the no-content path) calls step k's proceed_next, at
\* any time after run_one created it and any number of times.
Trigger ==
    /\ app = "running"
    /\ \E k \in 1..stepNo :
         /\ calls[k] < MaxCalls
         /\ Commit(Event(proceed_next(Cur, k), "trigger", k, "none", <<>>))

NextAdvance == RunOne \/ Trigger

SpecAdvance == Init /\ [][NextAdvance]_vars

\* ----------------------------------- chunk_text_by_sentences on its own
\* the texts it is called with: every string of at most MaxTextLen of these
\* characters (a letter, a sentence end, a space)
TextAlphabet == {"a", ".", " "}
Texts == UNION { [1..n -> TextAlphabet] : n \in 0..MaxTextLen }

InitChunker ==
    /\ InitMain
    /\ personalities = 0
    /\ num_chars = 1
    /\ text_in \in Texts
    /\ max_words_in \in 1..MaxWordsIn
    /\ chunked = FALSE
    /\ chunks_out = <<>>

\* chunks = chunk_text_by_sentences(text, max_words)
ChunkText ==
    /\ ~chunked
    /\ chunked' = TRUE
    /\ chunks_out' = chunk_text_by_sentences(text_in, max_words_in)
    /\ UNCHANGED << app, personalities, num_chars, personas_seq, index, stepNo,
                    guard, finished_conn, error_conn, timers, inflight, text,
                    status, chunks, chunk_idx, fading_out, opacity,
                    delay_active, fade_running, fade_end, calls, incs, scheds,
                    emits, session, sessionStep, plog, fired, stale, lastEvent,
                    topicFailed, monoSubmitted, played, submitted, events,
                    fade_session, llm, worker, closing, text_in, max_words_in >>

NextChunker == ChunkText

SpecChunker == InitChunker /\ [][NextChunker]_vars

\* ------------------------------------------ ConversationWindow on its own
\* The window's methods called as a controller may call them: play_chunks
\* with a new list at any time, also while the previous list's dwell timer
\* or fade is pending, and display_text for the next step's topic.
PlayerChunkLists ==
    { << <<"a">> >>,
      << <<"b">>, <<"c">> >> }

InitPlayer ==
    /\ Init
    /\ personalities = 0
    /\ num_chars = 1

\* window.play_chunks(chunks, delay_seconds=30)
PlayChunks ==
    /\ app = "running"
    /\ session < MaxSessions
    /\ \E cs \in PlayerChunkLists :
         Commit(Event(play_chunks(Cur, cs), "play", sessionStep, "none", <<>>))

\* window.display_text(f"Topic: {topic}")
DisplayTopic ==
    /\ app = "running"
    /\ text # TopicText(LIFE)
    /\ Commit(Event(display_text(Cur, TopicText(LIFE)), "display", sessionStep, "none", <<>>))

NextPlayer ==
    \/ PlayChunks
    \/ DisplayTopic
    \/ DelayElapsed
    \/ FadeFinished

SpecPlayer == InitPlayer /\ [][NextPlayer]_vars

\* ------------------------------------------------------------ properties
RunOneTimers == { i \in 1..Len(timers) : timers[i].kind = "run_one" }

\* C1: however often and in whatever order the triggers of a step call its
\* proceed_next, also after later steps have begun, the step increments the
\* index once and schedules run_one once: a step that was triggered has
\* exactly one increment and one scheduled run_one, one that was not has
\* none, and never are two run_one timers pending.
C1_AdvanceOnce ==
    /\ \A k \in 1..stepNo :
         /\ incs[k] = (IF calls[k] > 0 THEN 1 ELSE 0)
         /\ scheds[k] = (IF calls[k] > 0 THEN 1 ELSE 0)
         /\ (k \in guard) = (calls[k] > 0)
    /\ Cardinality(RunOneTimers) = (IF stepNo = 0 \/ stepNo \in guard THEN 1 ELSE 0)

\* a trigger of an earlier step fires again after a later step has begun
C1_Witness ==
    /\ lastEvent.ev = "trigger"
    /\ lastEvent.step < stepNo
    /\ calls[lastEvent.step] >= 2
    /\ calls[stepNo] >= 2

PlaybackFinished == session >= 1 /\ chunk_idx >= Len(chunks)

\* C2: a playback session that has reached its end has emitted the
\* "chunks finished" event exactly once, and no session emits it twice.
C2_TerminalEventOnce ==
    /\ emits <= session
    /\ PlaybackFinished => emits = session

\* nothing is pending: no timer, no call of the worker, no dwell, no fade
Quiescent ==
    /\ timers = <<>>
    /\ inflight = <<>>
    /\ ~delay_active
    /\ ~fade_running

\* C3: the loop never stalls: whenever nothing more is pending (or the
\* process is gone), the step that run_one started last has advanced.
C3_NeverStalls ==
    (stepNo >= 1 /\ (Quiescent \/ app = "aborted")) => stepNo \in guard

\* C4: once playback of n >= 1 chunks has been started for a step, the
\* fallback timer of 30000 * n + 2000 ms is pending for it until the step
\* has advanced.
C4_FallbackScheduled ==
    \A k \in played :
        \/ k \in guard
        \/ \E i \in 1..Len(timers) :
             /\ timers[i].kind = "fallback"
             /\ timers[i].step = k
             /\ timers[i].ms = 30000 * Len(chunks) + 2000

\* C5: right after a Failed result the diagnostic with its reason is
\* displayed and the step has advanced (index incremented once, run_one
\* scheduled); a step whose topic request failed never submits a monologue
\* request and never starts playback.
C5_FailureAdvances ==
    /\ lastEvent.ev = "error" =>
         /\ text = ErrorText(lastEvent.arg)
         /\ lastEvent.step \in guard
         /\ incs[lastEvent.step] = 1
         /\ \E i \in RunOneTimers : timers[i].step = lastEvent.step
    /\ \A k \in topicFailed :
         /\ k \notin monoSubmitted
         /\ k \notin played
         /\ \A i \in 1..Len(timers) :
              timers[i].step = k => timers[i].kind = "run_one"

\* a monologue failure, after an earlier step's topic failure
C5_Witness ==
    /\ lastEvent.ev = "error"
    /\ lastEvent.stage = "persona"
    /\ topicFailed # {}

\* C6: at most one call of worker.generate is outstanding.
C6_OneOutstanding == Len(inflight) <= 1

\* a monologue request of a later step is outstanding
C6_Witness ==
    /\ Len(inflight) = 1
    /\ inflight[1].stage = "persona"
    /\ inflight[1].step >= 2

\* C7: while the topic request of a step is outstanding, every earlier
\* step has advanced, and the playback an earlier step started, if any,
\* has reached its end.
C7_Sequential ==
    \A i \in 1..Len(inflight) :
        inflight[i].stage = "topic" =>
            /\ \A j \in 1..(inflight[i].step - 1) : j \in guard
            /\ (sessionStep # 0 /\ sessionStep < inflight[i].step) => PlaybackFinished

\* the topic request of step 3 is outstanding, step 2 having ended on the
\* no-content path
C7_Witness ==
    /\ Len(inflight) = 1
    /\ inflight[1].stage = "topic"
    /\ inflight[1].step = 3
    /\ 2 \in monoSubmitted

HandlerFor(stage) ==
    IF stage = "topic" THEN "on_topic_finished" ELSE "on_persona_finished"

\* C8: at most one slot is connected to each worker signal; while a request
\* is outstanding the connected slots are those of its stage and step; no
\* slot of an earlier step is ever called and none is called twice.
C8_NoStaleHandler ==
    /\ Len(finished_conn) <= 1
    /\ Len(error_conn) <= 1
    /\ \A i \in 1..Len(inflight) :
         LET r == inflight[i]
         IN /\ finished_conn = << Handler(HandlerFor(r.stage), r.step, r.persona) >>
            /\ error_conn = << Handler("on_error", r.step, r.persona) >>
    /\ stale = 0
    /\ \A h \in HandlerNames : fired[h] <= 1

\* both stage handlers of a later step have fired, once each
C8_Witness ==
    /\ stepNo >= 2
    /\ fired["on_topic_finished"] = 1
    /\ fired["on_persona_finished"] = 1

RECURSIVE ExpectedLog(_)
\* what a session does to chunks 0 .. i: chunk 0 is shown at once, a later
\* chunk is shown and faded in; each then dwells and is faded out
ExpectedLog(i) ==
    IF i = 0 THEN << <<"show", 0>>, <<"dwell", 0>>, <<"fade_out", 0>> >>
    ELSE ExpectedLog(i - 1)
         \o << <<"show", i>>, <<"fade_in", i>>, <<"dwell", i>>, <<"fade_out", i>> >>

IsPrefix(p, q) == Len(p) <= Len(q) /\ p = SubSeq(q, 1, Len(p))

\* C9: a session of n chunks shows, dwells on and fades out chunks
\* 0 .. n-1 in order, each dwell after the chunk's fade-in; when the player
\* has nothing more pending, the last chunk has faded out and the player is
\* at its end.
C9_PlaybackCompletes ==
    session >= 1 =>
        /\ IsPrefix(plog, ExpectedLog(Len(chunks) - 1))
        /\ (app = "running" /\ ~delay_active /\ ~fade_running) =>
               /\ plog = ExpectedLog(Len(chunks) - 1)
               /\ chunk_idx = Len(chunks)

\* C10: the chunk index never exceeds len(chunks) and, within a session,
\* never decreases.
C10_IndexMonotone ==
    /\ [](chunk_idx <= Len(chunks))
    /\ [][session' = session => chunk_idx' >= chunk_idx]_vars

\* a session has walked its index up to len(chunks)
C10_Witness ==
    /\ session = 1
    /\ Len(chunks) >= 1
    /\ chunk_idx = Len(chunks)

\* ------------------------------------------------------------ the topic
RECURSIVE FirstNonEmptyLine(_, _)
\* the first line of lines[i..] that is not blank, stripped; <<>> if none
FirstNonEmptyLine(lines, i) ==
    IF i > Len(lines) THEN <<>>
    ELSE IF strip(lines[i]) # <<>> THEN strip(lines[i])
    ELSE FirstNonEmptyLine(lines, i + 1)

\* the topic the controller is to use for the text t of a topic answer
ExpectedTopic(t) ==
    LET cleaned == StripChars(FirstNonEmptyLine(splitlines(t), 1), TopicStripChars)
    IN IF cleaned = <<>> THEN LIFE ELSE cleaned

\* C11: once finished(t) has been handled for a topic request, whatever t
\* is (empty and blank included), the window shows the topic cleaned from
\* the first non-empty line of t, or "life" when nothing is left, and the
\* 1.2 s timer that starts the step's persona with that topic is the one
\* pending timer; the monologue request then in flight is the only
\* request and is for the topic shown.
C11_TopicOrLife ==
    /\ (lastEvent.ev = "finished" /\ lastEvent.stage = "topic") =>
         /\ text = TopicText(ExpectedTopic(lastEvent.arg))
         /\ timers = << Timer("start_persona", lastEvent.step,
                              personas_seq[index + 1],
                              ExpectedTopic(lastEvent.arg), 1200) >>
    /\ \A i \in 1..Len(inflight) :
         inflight[i].stage = "persona" =>
            /\ Len(inflight) = 1
            /\ text = TopicText(inflight[i].topic)

\* ------------------------------------------------------- empty monologue
\* the persona of the step whose monologue answer was handled last: its
\* slot stays connected until the next run_one
AnsweredPersona == finished_conn[1].persona

\* C12: once finished(t) has been handled for a monologue request whose
\* text gives no chunk, the window shows the no-content indicator, the
\* step's proceed_next has been called once and has advanced (one
\* increment, its run_one timer the only pending timer), no playback
\* session was started for the step and no dwell, fade or fallback timer
\* is pending.
C12_EmptyAdvances ==
    ( /\ lastEvent.ev = "finished"
      /\ lastEvent.stage = "persona"
      /\ chunk_text_by_sentences(lastEvent.arg, PersonaMaxWords(AnsweredPersona)) = <<>> )
    => /\ text = EmptyText
       /\ calls[lastEvent.step] = 1
       /\ incs[lastEvent.step] = 1
       /\ timers = << Timer("run_one", lastEvent.step, DefaultPersona, <<>>, 0) >>
       /\ lastEvent.step \notin played
       /\ session = 0
       /\ ~delay_active
       /\ ~fade_running

C12_Witness ==
    /\ lastEvent.ev = "finished"
    /\ lastEvent.stage = "persona"
    /\ lastEvent.arg = <<>>
    /\ text = EmptyText
    /\ stepNo = 2

\* ------------------------------------------------------------ the passes
\* C13: the index never exceeds the length of the sequence; the sequence
\* is replaced, and the index goes back (to 0), only in a step taken with
\* the index at or past the end; otherwise the index stays or grows by
\* one; and the persona run_one has just selected is the one at the index,
\* which is below the length.
C13_IndexInRange ==
    /\ [](index <= Len(personas_seq))
    /\ [](lastEvent.ev = "run_one" =>
            /\ index < Len(personas_seq)
            /\ finished_conn[1].persona = personas_seq[index + 1])
    /\ [][(personas_seq' # personas_seq \/ index' < index) =>
            (index >= Len(personas_seq) /\ index' = 0)]_vars
    /\ [][index' >= index => index' \in {index, index + 1}]_vars

C13_Witness ==
    /\ lastEvent.ev = "run_one"
    /\ stepNo = 3
    /\ Len(personas_seq) = 2
    /\ index = 0
    /\ personas_seq # <<1, 2>>

\* ------------------------------------------------------------ the chunks
\* the words of chunk i
ChunkWords(i) == split(chunks_out[i])

\* C14: every chunk returned for a max_words >= 1 has at least one word
\* and at most max_words words.
C14_WordBudget ==
    chunked =>
        \A i \in 1..Len(chunks_out) :
            /\ Len(ChunkWords(i)) >= 1
            /\ Len(ChunkWords(i)) <= max_words_in

\* a sentence of three words cut for max_words = 2, after a sentence that
\* fills a chunk of its own
C14_Witness ==
    /\ chunked
    /\ max_words_in = 2
    /\ Len(chunks_out) = 3
    /\ Len(ChunkWords(1)) = 1
    /\ Len(ChunkWords(2)) = 2
    /\ Len(ChunkWords(3)) = 1
    /\ Len(re_split_sentences(strip(text_in))) = 2

RECURSIVE WordsOfChunks(_)
\* the words of chunks i.. in order
WordsOfChunks(i) ==
    IF i > Len(chunks_out) THEN <<>>
    ELSE ChunkWords(i) \o WordsOfChunks(i + 1)

\* C15: for a text that is not blank, the words of the chunks, one chunk
\* after the other, are the words of the text in their order: none lost,
\* none twice, none moved.
C15_WordsPreserved ==
    (chunked /\ strip(text_in) # <<>>) =>
        WordsOfChunks(1) = split(text_in)

\* a text with irregular whitespace and different words, cut into several
\* chunks
C15_Witness ==
    /\ chunked
    /\ Len(chunks_out) >= 2
    /\ Len(split(text_in)) = 3
    /\ Cardinality({ split(text_in)[i] : i \in 1..3 }) = 3
    /\ text_in # strip(text_in)

\* the sentences of the text that have words, and each one's words
SentencesIn ==
    SelectSeq(re_split_sentences(strip(text_in)), LAMBDA s : split(s) # <<>>)
SentenceLen(j) == Len(split(SentencesIn[j]))

RECURSIVE WordsBeforeSentence(_)
\* how many words of the text precede sentence j
WordsBeforeSentence(j) ==
    IF j <= 1 THEN 0 ELSE WordsBeforeSentence(j - 1) + SentenceLen(j - 1)

RECURSIVE WordsBeforeChunk(_)
\* how many words of the chunks precede chunk i
WordsBeforeChunk(i) ==
    IF i <= 1 THEN 0 ELSE WordsBeforeChunk(i - 1) + Len(ChunkWords(i - 1))

\* the positions, counted in words, at which one chunk ends and the next
\* begins (0 and the total included)
ChunkBoundaries == { WordsBeforeChunk(i) : i \in 1..Len(chunks_out) + 1 }

\* C16: counted in words, no chunk boundary lies strictly inside a
\* sentence of at most max_words words; a sentence of more words begins
\* and ends at a chunk boundary (the pending chunk is closed before it, no
\* window takes a word of the sentence before or after it), and the
\* boundaries inside it are exactly those at every max_words words from
\* its first word.
C16_SentenceIntegrity ==
    chunked =>
        /\ WordsBeforeChunk(Len(chunks_out) + 1) = WordsBeforeSentence(Len(SentencesIn) + 1)
        /\ \A j \in 1..Len(SentencesIn) :
             LET a == WordsBeforeSentence(j)
                 e == a + SentenceLen(j)
             IN IF SentenceLen(j) <= max_words_in
                THEN ChunkBoundaries \cap (a + 1 .. e - 1) = {}
                ELSE ChunkBoundaries \cap (a .. e) =
                        ({ a + n * max_words_in : n \in 0..SentenceLen(j) } \cap (a .. e))
                            \cup {e}

\* a sentence of two words cut for max_words = 1 between a sentence
\* pending in a chunk and a sentence that follows
C16_Witness ==
    /\ chunked
    /\ max_words_in = 1
    /\ Len(SentencesIn) = 3
    /\ SentenceLen(1) = 1
    /\ SentenceLen(2) = 2
    /\ SentenceLen(3) = 1
    /\ Len(chunks_out) = 4

\* ------------------------------------------------------- the persona draw
\* C17: with personalities configured, the sequence in use (the one drawn
\* at start or by a later pass) has num_characters entries, each one of
\* the configured personalities; no personality occurs twice when there
\* are at least num_characters of them, and one occurs twice when there
\* are fewer.
C17_PersonaSequence ==
    personalities >= 1 =>
        /\ Len(personas_seq) = num_chars
        /\ \A i \in 1..Len(personas_seq) : personas_seq[i] \in 1..personalities
        /\ personalities >= num_chars =>
             \A i, j \in 1..Len(personas_seq) :
                 i # j => personas_seq[i] # personas_seq[j]
        /\ personalities < num_chars =>
             \E i, j \in 1..Len(personas_seq) :
                 i # j /\ personas_seq[i] = personas_seq[j]

\* the sequence drawn for a second pass, from fewer personalities than
\* num_characters
C17_Witness ==
    /\ lastEvent.ev = "run_one"
    /\ stepNo = 3
    /\ index = 0
    /\ personalities = 1
    /\ num_chars = 2
    /\ personas_seq = <<1, 1>>

\* -------------------------------------------------- the worker's events
\* C18: every call of worker.generate that has returned emitted one event,
\* finished or error, and no call emitted two or none: the events emitted
\* so far and the calls still running add up to the calls made.
C18_OneEventPerRequest == events + Len(inflight) = submitted

\* a call that returned and a call whose inference raised have each
\* emitted their event
C18_Witness ==
    /\ submitted = 2
    /\ events = 2
    /\ inflight = <<>>
    /\ lastEvent.ev = "error"
    /\ lastEvent.stage = "persona"

\* ------------------------------------------------------ start-up failure
\* C19: when LLMInterface(...) raised, the window shows the failure with
\* its reason and the status says so, and nothing of the loop ever
\* exists: no worker, no slot connected, no timer (run_one included)
\* pending, no step begun, no call of worker.generate made or running.
C19_NoLoopAfterInitFailure ==
    llm = "failed" =>
        /\ \E msg \in LoadErrors : text = ErrorText(msg)
        /\ status = "Failed to initialize LLM."
        /\ ~worker
        /\ finished_conn = <<>>
        /\ error_conn = <<>>
        /\ timers = <<>>
        /\ stepNo = 0
        /\ submitted = 0
        /\ inflight = <<>>

C19_Witness ==
    /\ llm = "failed"
    /\ app = "running"
    /\ text = ErrorText(<<"n", "o", "f", "i", "l", "e">>)

\* --------------------------------------------------- overlapping sessions
\* C20: a fade that was started before the current play_chunks session
\* began changes nothing of that session when it finishes (chunk index,
\* fade direction, opacity and text stay as they are), and no dwell or fade
\* event changes the topic text the controller has put into the window.
C20_OldSessionInvalidated ==
    /\ [][(fade_running /\ fade_session < session /\ lastEvent'.ev = "fade") =>
            /\ chunk_idx' = chunk_idx
            /\ fading_out' = fading_out
            /\ opacity' = opacity
            /\ text' = text]_vars
    /\ [][(text = TopicText(LIFE) /\ lastEvent'.ev \in {"delay", "fade"}) =>
            text' = text]_vars

\* ------------------------------------------------------------ the threads
\* C21: every call of worker.generate that is running runs in the worker's
\* thread, never in the control thread, and a close event the user posted
\* while a call is running can be handled before the call has returned.
C21_InferenceOffControlThread ==
    /\ \A i \in 1..Len(inflight) : inflight[i].thread = "worker"
    /\ (app = "running" /\ closing /\ inflight # <<>>) => ENABLED ProcessClose

\* ------------------------------------------------------------ visibility
\* the text in the box was put there by the controller's display_text: the
\* topic line, an error diagnostic or the no-content indicator
ControllerText ==
    text.fmt \in { TopicText(<<>>).fmt, ErrorText(<<>>).fmt, EmptyText.fmt }

\* C22: while a text the controller displayed itself is in the box the
\* opacity is 1, and a playback session that has gone through all its
\* chunks, with no fade running, has left the opacity at 1.
C22_TextVisible ==
    /\ ControllerText => opacity = 1
    /\ (PlaybackFinished /\ ~fade_running) => opacity = 1

====
